---- MODULE Spec2Model ----
(***************************************************************************)
(* The `run` command of the CLI (packages/cli/src/cli/cmd/run/index.ts):   *)
(* the action handler that drives setup -> plan -> execute -> watch inside *)
(* one try/catch, and the playSound notifier it awaits.                    *)
(*                                                                         *)
(* The handler is an async function: it runs one statement at a time and   *)
(* is suspended at every `await`.  pc is the statement the handler is at;  *)
(* pending is the awaited call in flight.  Every awaited collaborator may  *)
(* resolve or reject; a rejection (or a synchronous throw) inside the try  *)
(* block transfers control to the catch clause.                            *)
(***************************************************************************)
EXTENDS Naturals, Sequences, FiniteSets

VARIABLES
  opt,        \* commander's processing of one repeatable option
  args,       \* the raw option object commander hands to the action
  platform,   \* os.platform()
  ctx,        \* CmdRunContext: flags, config, results, tasks, localizer
  authId,     \* let authId: string | null
  pc,         \* the statement of the handler that runs next
  pending,    \* the awaited call in flight, or NONE
  confirmed,  \* whether the user has confirmed the debug pause
  snd,        \* per sound kind: the state of the playSound promise
  log,        \* everything the handler did, in order
  exited      \* the exit the process was asked for, or NONE

vars == <<opt, args, platform, ctx, authId, pc, pending, confirmed, snd, log, exited>>

\* ---------------------------------------------------------------- bounds
MaxTasks == 2
MaxValues == 3

\* ------------------------------------------------------------- constants
NULL == "null"
NONE == "none"
TimeoutMs == 3000

AuthIds == {"user-1", "user-2"}
Platforms == {"linux", "darwin", "win32", "freebsd"}
SoundKinds == {"success", "failure"}

\* ------------------------------------------------------------ the flags
\* The option object: --sound, --watch, --debug are present or absent;
\* --concurrency is absent, a number, or NaN (parseInt of a non-number).
Concurrencies == {"unset", "4", "NaN"}

ArgsSet ==
  [sound : BOOLEAN, watch : BOOLEAN, debug : BOOLEAN, concurrency : Concurrencies]

\* flagsSchema.parse accepts the object unless a field has the wrong shape.
FlagsSchemaAccepts(a) == a.concurrency # "NaN"

\* What flagsSchema.parse returns for an accepted object.
FlagsSchemaParse(a) ==
  [sound |-> a.sound, watch |-> a.watch, debug |-> a.debug,
   concurrency |-> a.concurrency]

NoFlags ==
  [sound |-> FALSE, watch |-> FALSE, debug |-> FALSE, concurrency |-> "unset"]

\* ------------------------------------------- the repeatable options
\* --target-locale, --bucket, --file, --key: each is given the same
\* accumulator, which commander calls once per occurrence with the value
\* and the previous result (undefined at the first occurrence).
RepeatableOptions == {"targetLocale", "bucket", "file", "key"}
OptionValues == {"en", "fr", "de"}

\* A value of type string[] | undefined.
Undefined == [defined |-> FALSE, items |-> <<>>]
Array(items) == [defined |-> TRUE, items |-> items]

\* The truthiness of prev: undefined is falsy, every array is truthy.
Truthy(prev) == prev.defined

\* Mutant: the new value is put in front.
Collect_prepend(val, prev) ==
  IF Truthy(prev) THEN Array(<<val>> \o prev.items) ELSE Array(<<val>>)

\* Mutant: the previous values are dropped.
Collect_replace(val, prev) == Array(<<val>>)

\* (val, prev) => (prev ? [...prev, val] : [val])
Collect(val, prev) ==
  IF Truthy(prev) THEN Array(prev.items \o <<val>>) ELSE Array(<<val>>)

\* All sequences over S of length at most n.
SeqsUpTo(S, n) == UNION {[1..k -> S] : k \in 0..n}

\* No repeatable option is being processed.
OptIdle == [name |-> "targetLocale", values |-> <<>>, next |-> 1, prev |-> Undefined]

\* ------------------------------------------------------------ playSound
\* soundFiles: one entry, <type>.mp3; soundFiles[1] (second entry) is undefined.
SoundFiles(type) == <<type>>

SoundFileAt(type, i) ==
  IF i + 1 \in DOMAIN SoundFiles(type) THEN SoundFiles(type)[i + 1] ELSE "undefined"

\* The shell command: the players tried in order, each with its file.
PlayCommand(p, type) ==
  CASE p = "linux"  -> << <<"mpg123", SoundFileAt(type, 0)>>, <<"aplay", SoundFileAt(type, 0)>> >>
    [] p = "darwin" -> << <<"afplay", SoundFileAt(type, 0)>> >>
    [] p = "win32"  -> << <<"SoundPlayer", SoundFileAt(type, 1)>>,
                          <<"Start-Process", SoundFileAt(type, 0)>> >>
    [] OTHER        -> << <<"aplay", SoundFileAt(type, 0)>>, <<"afplay", SoundFileAt(type, 0)>> >>

\* A promise that was not created yet.
NoSound ==
  [command |-> <<>>, exec |-> "idle", timer |-> "idle", delay |-> 0, resolves |-> 0]

\* ------------------------------------------------------- statement order
\* Mutant: the success event is sent before watch is entered.
TryOrder_successBeforeWatch ==
  << "flagsSchema.parse", "pauseIfDebug", "renderIntro", "setup",
     "determineAuthId", "track.start", "renderSpacer.141", "plan",
     "renderSpacer.144", "execute", "renderSpacer.147", "renderSummary",
     "renderSpacer.150", "playSound.success", "track.success", "watch",
     "exitGracefully" >>

\* Mutant: the start event is sent at the end, after the success event.
TryOrder_startLast ==
  << "flagsSchema.parse", "pauseIfDebug", "renderIntro", "setup",
     "determineAuthId", "renderSpacer.141", "plan",
     "renderSpacer.144", "execute", "renderSpacer.147", "renderSummary",
     "renderSpacer.150", "playSound.success", "watch", "track.success",
     "track.start", "exitGracefully" >>

\* Mutant: the summary is rendered before execute is run.
TryOrder_summaryBeforeExecute ==
  << "flagsSchema.parse", "pauseIfDebug", "renderIntro", "setup",
     "determineAuthId", "track.start", "renderSpacer.141", "plan",
     "renderSpacer.144", "renderSummary", "execute",
     "renderSpacer.147", "renderSpacer.150", "playSound.success",
     "watch", "track.success", "exitGracefully" >>

\* Mutant: plan is run before setup.
TryOrder_planBeforeSetup ==
  << "flagsSchema.parse", "pauseIfDebug", "renderIntro", "plan",
     "setup", "determineAuthId", "track.start", "renderSpacer.141",
     "renderSpacer.144", "execute", "renderSpacer.147",
     "renderSummary", "renderSpacer.150", "playSound.success", "watch",
     "track.success", "exitGracefully" >>

\* Mutant: the success sound is played before the summary is rendered.
TryOrder_soundBeforeSummary ==
  << "flagsSchema.parse", "pauseIfDebug", "renderIntro", "setup",
     "determineAuthId", "track.start", "renderSpacer.141", "plan",
     "renderSpacer.144", "execute", "renderSpacer.147",
     "playSound.success", "renderSummary", "renderSpacer.150", "watch",
     "track.success", "exitGracefully" >>

\* The statements of the try block, in source order.
TryOrder ==
  << "flagsSchema.parse", "pauseIfDebug", "renderIntro", "setup",
     "determineAuthId", "track.start", "renderSpacer.141", "plan",
     "renderSpacer.144", "execute", "renderSpacer.147", "renderSummary",
     "renderSpacer.150", "playSound.success", "watch", "track.success",
     "exitGracefully" >>

\* Mutant: the catch clause plays the sound before it sends the event.
CatchOrder_soundFirst == << "playSound.failure", "track.error", "process.exit" >>

\* The statements of the catch clause, in source order.
CatchOrder == << "track.error", "playSound.failure", "process.exit" >>

InTry(l) == \E k \in DOMAIN TryOrder : TryOrder[k] = l

\* The statement after statement l of a block; "end" after the last one.
FollowIn(block, l) ==
  LET i == CHOOSE k \in DOMAIN block : block[k] = l
  IN  IF i + 1 \in DOMAIN block THEN block[i + 1] ELSE "end"

Follow(l) == IF InTry(l) THEN FollowIn(TryOrder, l) ELSE FollowIn(CatchOrder, l)

\* ------------------------------------------------------------- the log
Ev(op, arg, id) == [op |-> op, arg |-> arg, id |-> id]

Logged(e) == \E i \in DOMAIN log : log[i] = e
Called(op) == Logged(Ev("call", op, ""))
Returned(op) == \E i \in DOMAIN log : log[i].op = "return" /\ log[i].arg = op
Rejected(op) == Logged(Ev("reject", op, ""))
Tracked(name) == {i \in DOMAIN log : log[i].op = "trackEvent" /\ log[i].arg = name}
Calls(op) == {i \in DOMAIN log : log[i] = Ev("call", op, "")}

\* ----------------------------------------------------------------- Init
Init ==
  /\ opt = OptIdle
  /\ args \in ArgsSet
  /\ platform \in Platforms
  /\ ctx = [flags |-> NoFlags, config |-> NULL, results |-> {}, tasks |-> <<>>,
            localizer |-> NULL]
  /\ authId = NULL
  /\ pc = TryOrder[1]
  /\ pending = NONE
  /\ confirmed = FALSE
  /\ snd = [k \in SoundKinds |-> NoSound]
  /\ log = <<>>
  /\ exited = NONE

Running == exited = NONE

\* ------------------------------------------------------ await, in general
\* `await op(...)`: the call is made and the handler is suspended.
Call(op) ==
  /\ Running
  /\ pc = op
  /\ pending = NONE
  /\ pending' = op
  /\ pc' = pc
  /\ log' = Append(log, Ev("call", op, ""))

\* The awaited promise resolved (with value id): the handler goes on.
Return(op, id) ==
  /\ Running
  /\ pending = op
  /\ pending' = NONE
  /\ pc' = Follow(op)
  /\ log' = Append(log, Ev("return", op, id))

\* Something inside the try block threw: control enters the catch clause.
Throw(op) ==
  /\ Running
  /\ InTry(op)
  /\ pending' = NONE
  /\ pc' = CatchOrder[1]
  /\ log' = Append(log, Ev("reject", op, ""))

\* Mutant: a rejected option object is used as it is.
FlagsParse_lenient ==
  /\ Running
  /\ pc = "flagsSchema.parse"
  /\ pending = NONE
  /\ ctx' = [flags |-> FlagsSchemaParse(args), config |-> NULL,
              results |-> {}, tasks |-> <<>>, localizer |-> NULL]
  /\ pc' = FollowIn(TryOrder, pc)
  /\ log' = Append(log, Ev("return", pc, ""))
  /\ pending' = pending
  /\ UNCHANGED <<opt, args, platform, authId, confirmed, snd, exited>>

\* ------------------------------------------------------- the try block
\* ctx = { flags: flagsSchema.parse(args), config: null, results: new Map(),
\*         tasks: [], localizer: null }
FlagsParse ==
  /\ Running
  /\ pc = "flagsSchema.parse"
  /\ pending = NONE
  /\ IF FlagsSchemaAccepts(args)
       THEN /\ ctx' = [flags |-> FlagsSchemaParse(args), config |-> NULL,
                       results |-> {}, tasks |-> <<>>, localizer |-> NULL]
            /\ pc' = Follow(pc)
            /\ log' = Append(log, Ev("return", pc, ""))
            /\ pending' = pending
       ELSE /\ Throw(pc)
            /\ ctx' = ctx
  /\ UNCHANGED <<opt, args, platform, authId, confirmed, snd, exited>>

\* await pauseIfDebug(ctx.flags.debug)
PauseIfDebug_call ==
  /\ Call("pauseIfDebug")
  /\ UNCHANGED <<opt, args, platform, ctx, authId, confirmed, snd, exited>>

\* The user confirms the debug prompt.
Confirm ==
  /\ Running
  /\ pending = "pauseIfDebug"
  /\ ctx.flags.debug
  /\ ~confirmed
  /\ confirmed' = TRUE
  /\ UNCHANGED <<opt, args, platform, ctx, authId, pc, pending, snd, log, exited>>

\* Mutant: the pause does not wait for the confirmation.
PauseIfDebug_ok_noWait ==
  /\ Return("pauseIfDebug", "")
  /\ UNCHANGED <<opt, args, platform, ctx, authId, confirmed, snd, exited>>

PauseIfDebug_ok ==
  /\ ctx.flags.debug => confirmed
  /\ Return("pauseIfDebug", "")
  /\ UNCHANGED <<opt, args, platform, ctx, authId, confirmed, snd, exited>>

\* await renderClear(); renderSpacer(); renderBanner(); renderHero(); renderSpacer()
RenderIntro_call ==
  /\ Call("renderIntro")
  /\ UNCHANGED <<opt, args, platform, ctx, authId, confirmed, snd, exited>>

RenderIntro_ok ==
  /\ Return("renderIntro", "")
  /\ UNCHANGED <<opt, args, platform, ctx, authId, confirmed, snd, exited>>

\* await setup(ctx)
Setup_call ==
  /\ Call("setup")
  /\ UNCHANGED <<opt, args, platform, ctx, authId, confirmed, snd, exited>>

Setup_ok ==
  /\ Return("setup", "")
  /\ ctx' = [ctx EXCEPT !.config = "i18n.json", !.localizer = "localizer"]
  /\ UNCHANGED <<opt, args, platform, authId, confirmed, snd, exited>>

\* authId = await determineAuthId(ctx)
DetermineAuthId_call ==
  /\ Call("determineAuthId")
  /\ UNCHANGED <<opt, args, platform, ctx, authId, confirmed, snd, exited>>

DetermineAuthId_ok ==
  \E id \in AuthIds \cup {NULL} :
    /\ Return("determineAuthId", id)
    /\ authId' = id
    /\ UNCHANGED <<opt, args, platform, ctx, confirmed, snd, exited>>

\* trackEvent(id, name, payload): fire and forget, never throws.
TrackEvent(id, name) ==
  /\ Running
  /\ pending = NONE
  /\ log' = Append(log, Ev("trackEvent", name, id))
  /\ pc' = Follow(pc)
  /\ UNCHANGED <<opt, args, platform, ctx, authId, pending, confirmed, snd, exited>>

\* trackEvent(authId, "cmd.run.start", {config, flags})
TrackStart ==
  /\ pc = "track.start"
  /\ TrackEvent(authId, "cmd.run.start")

\* await renderSpacer(), at each of its four places after setup
SpacerSites ==
  {"renderSpacer.141", "renderSpacer.144", "renderSpacer.147", "renderSpacer.150"}

RenderSpacer_call ==
  \E site \in SpacerSites :
    /\ Call(site)
    /\ UNCHANGED <<opt, args, platform, ctx, authId, confirmed, snd, exited>>

RenderSpacer_ok ==
  \E site \in SpacerSites :
    /\ Return(site, "")
    /\ UNCHANGED <<opt, args, platform, ctx, authId, confirmed, snd, exited>>

\* await plan(ctx)
Plan_call ==
  /\ Call("plan")
  /\ UNCHANGED <<opt, args, platform, ctx, authId, confirmed, snd, exited>>

Plan_ok ==
  \E n \in 0..MaxTasks :
    /\ Return("plan", "")
    /\ ctx' = [ctx EXCEPT !.tasks = [i \in 1..n |-> i]]
    /\ UNCHANGED <<opt, args, platform, authId, confirmed, snd, exited>>

\* await execute(ctx): fills ctx.results task by task
Execute_call ==
  /\ Call("execute")
  /\ UNCHANGED <<opt, args, platform, ctx, authId, confirmed, snd, exited>>

Execute_progress ==
  /\ Running
  /\ pending = "execute"
  /\ \E i \in DOMAIN ctx.tasks :
       /\ ctx.tasks[i] \notin ctx.results
       /\ \A j \in 1..(i - 1) : ctx.tasks[j] \in ctx.results
       /\ ctx' = [ctx EXCEPT !.results = @ \cup {ctx.tasks[i]}]
  /\ UNCHANGED <<opt, args, platform, authId, pc, pending, confirmed, snd, log, exited>>

Execute_ok ==
  /\ \A i \in DOMAIN ctx.tasks : ctx.tasks[i] \in ctx.results
  /\ Return("execute", "")
  /\ UNCHANGED <<opt, args, platform, ctx, authId, confirmed, snd, exited>>

\* await renderSummary(ctx.results)
RenderSummary_call ==
  /\ Call("renderSummary")
  /\ UNCHANGED <<opt, args, platform, ctx, authId, confirmed, snd, exited>>

RenderSummary_ok ==
  /\ Return("renderSummary", "")
  /\ UNCHANGED <<opt, args, platform, ctx, authId, confirmed, snd, exited>>

\* ------------------------------------------------------------ playSound
\* Mutant: no timer is set.
PlaySound_noTimer(type) ==
  snd' = [snd EXCEPT ![type] =
            [command |-> PlayCommand(platform, type), exec |-> "running",
             timer |-> "idle", delay |-> 0, resolves |-> 0]]

\* playSound(type): new Promise(resolve => { exec(command, () => resolve());
\* setTimeout(resolve, 3000) }).  The promise has no reject path.
PlaySound(type) ==
  snd' = [snd EXCEPT ![type] =
            [command |-> PlayCommand(platform, type), exec |-> "running",
             timer |-> "armed", delay |-> TimeoutMs, resolves |-> 0]]

\* The callback of exec fires (the command ended, whatever its status).
ExecCallback ==
  \E type \in SoundKinds :
    /\ Running
    /\ snd[type].exec = "running"
    /\ snd' = [snd EXCEPT ![type].exec = "done", ![type].resolves = @ + 1]
    /\ UNCHANGED <<opt, args, platform, ctx, authId, pc, pending, confirmed, log, exited>>

\* Mutant: the timer fires without resolving the promise.
TimerFires_noResolve ==
  \E type \in SoundKinds :
    /\ Running
    /\ snd[type].timer = "armed"
    /\ snd' = [snd EXCEPT ![type].timer = "fired"]
    /\ UNCHANGED <<opt, args, platform, ctx, authId, pc, pending, confirmed, log, exited>>

\* The 3000 ms timer fires.
TimerFires ==
  \E type \in SoundKinds :
    /\ Running
    /\ snd[type].timer = "armed"
    /\ snd' = [snd EXCEPT ![type].timer = "fired", ![type].resolves = @ + 1]
    /\ UNCHANGED <<opt, args, platform, ctx, authId, pc, pending, confirmed, log, exited>>

\* Mutant: the handler goes on without waiting for the promise.
PlaySound_ok_noWait ==
  \E type \in SoundKinds :
    /\ Return("playSound." \o type, "")
    /\ UNCHANGED <<opt, args, platform, ctx, authId, confirmed, snd, exited>>

\* Mutant: the handler is resumed by every resolve, not only the first.
PlaySound_ok_perSignal ==
  \E type \in SoundKinds :
    LET op == "playSound." \o type
        resumed == Cardinality({i \in DOMAIN log : log[i] = Ev("return", op, "")})
    IN  /\ Running
        /\ snd[type].resolves > resumed
        /\ pending \in {op, NONE}
        /\ pending' = NONE
        /\ pc' = IF pending = op THEN Follow(op) ELSE pc
        /\ log' = Append(log, Ev("return", op, ""))
        /\ UNCHANGED <<opt, args, platform, ctx, authId, confirmed, snd, exited>>

\* The promise is settled by the first resolve; the handler resumes once.
PlaySound_ok ==
  \E type \in SoundKinds :
    /\ snd[type].resolves > 0
    /\ Return("playSound." \o type, "")
    /\ UNCHANGED <<opt, args, platform, ctx, authId, confirmed, snd, exited>>

\* Mutant: the success sound is played whatever the flag says.
PlaySuccess_call_always ==
  /\ Call("playSound.success")
  /\ PlaySound("success")
  /\ UNCHANGED <<opt, args, platform, ctx, authId, confirmed, exited>>

\* if (ctx.flags.sound) { await playSound('success') }
PlaySuccess_call ==
  /\ ctx.flags.sound
  /\ Call("playSound.success")
  /\ PlaySound("success")
  /\ UNCHANGED <<opt, args, platform, ctx, authId, confirmed, exited>>

\* An `if` whose condition is false: the statement is skipped.
Skip(op) ==
  /\ Running
  /\ pc = op
  /\ pending = NONE
  /\ pc' = Follow(op)
  /\ UNCHANGED <<opt, args, platform, ctx, authId, pending, confirmed, snd, log, exited>>

PlaySuccess_skip ==
  /\ ~ctx.flags.sound
  /\ Skip("playSound.success")

\* Mutant: watch is entered whatever the flag says.
Watch_call_always ==
  /\ Call("watch")
  /\ UNCHANGED <<opt, args, platform, ctx, authId, confirmed, snd, exited>>

\* if (ctx.flags.watch) { await watch(ctx) }
Watch_call ==
  /\ ctx.flags.watch
  /\ Call("watch")
  /\ UNCHANGED <<opt, args, platform, ctx, authId, confirmed, snd, exited>>

Watch_skip ==
  /\ ~ctx.flags.watch
  /\ Skip("watch")

\* watch(ctx) returns (it may also never do so: nothing forces this step)
Watch_ok ==
  /\ Return("watch", "")
  /\ UNCHANGED <<opt, args, platform, ctx, authId, confirmed, snd, exited>>

\* trackEvent(authId, "cmd.run.success", {config, flags})
TrackSuccess ==
  /\ pc = "track.success"
  /\ TrackEvent(authId, "cmd.run.success")

\* The process is asked to end with the given status.
Exit(op, status) ==
  /\ Running
  /\ pc = op
  /\ pending = NONE
  /\ exited' = status
  /\ pc' = Follow(op)
  /\ log' = Append(log, Ev("exit", op, status))
  /\ UNCHANGED <<opt, args, platform, ctx, authId, pending, confirmed, snd>>

\* exitGracefully() ends the process with this status.
GracefulStatus == "0"

\* exitGracefully()
ExitGracefully ==
  /\ pc = "exitGracefully"
  /\ Exit("exitGracefully", GracefulStatus)

\* ----------------------------------------------------- the catch clause
\* The awaited calls whose promise can reject (playSound's cannot).
Rejectable ==
  {"pauseIfDebug", "renderIntro", "setup", "determineAuthId", "plan",
   "execute", "renderSummary", "watch"} \cup SpacerSites

\* } catch (error) {   -- an awaited call of the try block rejected
AwaitRejects ==
  \E op \in Rejectable :
    /\ pending = op
    /\ Throw(op)
    /\ UNCHANGED <<opt, args, platform, ctx, authId, confirmed, snd, exited>>

\* Mutant: the authId is passed on as it is.
OrUnknown_asIs(id) == id

\* authId || "unknown"
OrUnknown(id) == IF id = NULL \/ id = "" THEN "unknown" ELSE id

\* trackEvent(authId || "unknown", "cmd.run.error", {})
TrackError ==
  /\ pc = "track.error"
  /\ TrackEvent(OrUnknown(authId), "cmd.run.error")

\* Mutant: the catch clause reads the validated flag.
CatchSoundFlag_validated == ctx.flags.sound

\* The flag the catch clause reads: args.sound, the unvalidated option.
CatchSoundFlag == args.sound

\* if (args.sound) { await playSound('failure') }
PlayFailure_call ==
  /\ CatchSoundFlag
  /\ Call("playSound.failure")
  /\ PlaySound("failure")
  /\ UNCHANGED <<opt, args, platform, ctx, authId, confirmed, exited>>

PlayFailure_skip ==
  /\ ~CatchSoundFlag
  /\ Skip("playSound.failure")

\* Mutant: the catch clause ends the process with status 0.
ProcessExit_zero ==
  /\ pc = "process.exit"
  /\ Exit("process.exit", "0")

\* process.exit(1)
ProcessExit ==
  /\ pc = "process.exit"
  /\ Exit("process.exit", "1")

\* ----------------------------------------------------------------- Next
Next ==
  \/ FlagsParse
  \/ PauseIfDebug_call
  \/ Confirm
  \/ PauseIfDebug_ok
  \/ RenderIntro_call
  \/ RenderIntro_ok
  \/ Setup_call
  \/ Setup_ok
  \/ DetermineAuthId_call
  \/ DetermineAuthId_ok
  \/ TrackStart
  \/ RenderSpacer_call
  \/ RenderSpacer_ok
  \/ Plan_call
  \/ Plan_ok
  \/ Execute_call
  \/ Execute_progress
  \/ Execute_ok
  \/ RenderSummary_call
  \/ RenderSummary_ok
  \/ PlaySuccess_call
  \/ PlaySuccess_skip
  \/ PlaySound_ok
  \/ Watch_call
  \/ Watch_skip
  \/ Watch_ok
  \/ TrackSuccess
  \/ ExitGracefully
  \/ AwaitRejects
  \/ TrackError
  \/ PlayFailure_call
  \/ PlayFailure_skip
  \/ ProcessExit
  \/ ExecCallback
  \/ TimerFires

Spec == Init /\ [][Next]_vars

\* The steps the handler itself takes once it can run: the event loop runs
\* a ready continuation, and an armed timer fires while the process lives.
HandlerStep ==
  \/ FlagsParse
  \/ PauseIfDebug_call
  \/ RenderIntro_call
  \/ Setup_call
  \/ DetermineAuthId_call
  \/ TrackStart
  \/ RenderSpacer_call
  \/ Plan_call
  \/ Execute_call
  \/ RenderSummary_call
  \/ PlaySuccess_call
  \/ PlaySuccess_skip
  \/ PlaySound_ok
  \/ Watch_call
  \/ Watch_skip
  \/ TrackSuccess
  \/ ExitGracefully
  \/ TrackError
  \/ PlayFailure_call
  \/ PlayFailure_skip
  \/ ProcessExit

FairSpec == Spec /\ WF_vars(HandlerStep) /\ WF_vars(TimerFires)

\* The awaited collaborators that return when they do not fail; the user
\* who confirms the debug prompt.  watch is not among them: it may run for ever.
CollaboratorReturns ==
  \/ Confirm
  \/ PauseIfDebug_ok
  \/ RenderIntro_ok
  \/ Setup_ok
  \/ DetermineAuthId_ok
  \/ RenderSpacer_ok
  \/ Plan_ok
  \/ Execute_progress
  \/ Execute_ok
  \/ RenderSummary_ok

\* FairSpec, with every awaited call but watch and the player settling.
LiveSpec == FairSpec /\ WF_vars(CollaboratorReturns)

\* ------------------------------------------- parsing a repeatable option
\* The command line gives one repeatable option some number of times.
OptInit ==
  /\ opt \in [name : RepeatableOptions, values : SeqsUpTo(OptionValues, MaxValues),
               next : {1}, prev : {Undefined}]
  /\ args = [sound |-> FALSE, watch |-> FALSE, debug |-> FALSE, concurrency |-> "unset"]
  /\ platform = "linux"
  /\ ctx = [flags |-> NoFlags, config |-> NULL, results |-> {}, tasks |-> <<>>,
            localizer |-> NULL]
  /\ authId = NULL
  /\ pc = "commander.parse"
  /\ pending = NONE
  /\ confirmed = FALSE
  /\ snd = [k \in SoundKinds |-> NoSound]
  /\ log = <<>>
  /\ exited = NONE

\* commander meets the next occurrence and calls the accumulator.
OptionOccurs ==
  /\ pc = "commander.parse"
  /\ opt.next \in DOMAIN opt.values
  /\ opt' = [opt EXCEPT !.prev = Collect(opt.values[opt.next], opt.prev),
                         !.next = @ + 1]
  /\ UNCHANGED <<args, platform, ctx, authId, pc, pending, confirmed, snd, log, exited>>

OptNext == OptionOccurs

OptionSpec == OptInit /\ [][OptNext]_vars

\* ============================================================ properties
Phases == {"setup", "plan", "execute", "watch"}
CatchStmts == {CatchOrder[k] : k \in DOMAIN CatchOrder}
Rejects == {i \in DOMAIN log : log[i].op = "reject"}
Caught == Rejects # {}
Played(type) == Called("playSound." \o type)
Finished == pc = "end"
StartEvents == Tracked("cmd.run.start")
SuccessEvents == Tracked("cmd.run.success")
ErrorEvents == Tracked("cmd.run.error")
\* The handler is at statement l and about to run it.
About(l) == pc = l /\ pending = NONE

\* ---------------------------------------------------------------- C1
\* C1: when flagsSchema.parse rejects the options, setup, plan, execute and
\* watch are never invoked, the process is never asked to end with status 0,
\* and it does end with status 1.
C1_InvalidFlagsRunNoPhase ==
  /\ [](~FlagsSchemaAccepts(args) =>
          /\ \A p \in Phases : ~Called(p)
          /\ exited \in {NONE, "1"})
  /\ (~FlagsSchemaAccepts(args) ~> exited = "1")

C1_Witness ==
  /\ ~FlagsSchemaAccepts(args)
  /\ Rejected("flagsSchema.parse")
  /\ exited = "1"

\* ---------------------------------------------------------------- C2
\* C2: when watch is entered, the success event has already been sent.
C2_SuccessSentBeforeWatch ==
  Called("watch") => SuccessEvents # {}

\* ---------------------------------------------------------------- C3
\* C3: a rejection of determineAuthId does not abort the run: control does
\* not enter the catch clause, no error event is sent, no exit 1.
C3_AuthIdFailureDoesNotAbort ==
  Rejected("determineAuthId") =>
    /\ pc \notin CatchStmts
    /\ ErrorEvents = {}
    /\ exited # "1"

C5_PhasesDoneImpliesStartAndSuccess ==
  (Finished /\ Returned("setup") /\ Returned("plan") /\ Returned("execute")) =>
    /\ Cardinality(StartEvents) = 1
    /\ Cardinality(SuccessEvents) = 1
    /\ \A i \in StartEvents : \A j \in SuccessEvents : i < j

\* C5 amended: a run that reaches the graceful exit (every statement of the
\* try block completed) has sent the start event once and the success event
\* once, start first; no run sends either twice or success without start.
C5_StartThenSuccess ==
  /\ Cardinality(StartEvents) <= 1
  /\ Cardinality(SuccessEvents) <= 1
  /\ \A j \in SuccessEvents : \E i \in StartEvents : i < j
  /\ Returned("execute") => Cardinality(StartEvents) = 1
  /\ exited = GracefulStatus =>
       /\ Cardinality(StartEvents) = 1
       /\ Cardinality(SuccessEvents) = 1

C5_Witness ==
  /\ exited = GracefulStatus
  /\ Returned("execute")
  /\ SuccessEvents # {}

\* ---------------------------------------------------------------- C6
\* C6: no run sends both the success event and the error event.
C6_NeverSuccessAndError ==
  ~(SuccessEvents # {} /\ ErrorEvents # {})

C6_Witness ==
  /\ SuccessEvents # {}
  /\ Called("watch")
  /\ exited = GracefulStatus

\* ---------------------------------------------------------------- C7
\* C7 as stated: a finished run with the sound flag set in which execute
\* returned has played the success sound.
C7_ExecuteDoneImpliesSuccessSound ==
  /\ Played("success") => ctx.flags.sound /\ Returned("execute")
  /\ (Finished /\ ctx.flags.sound /\ Returned("execute")) => Played("success")

\* C7 amended: the success sound is played if and only if the sound flag is
\* set and execute and the summary rendering after it (renderSpacer,
\* renderSummary, renderSpacer) all returned.
C7_SuccessSoundIffSummaryDone ==
  /\ Played("success") =>
       /\ ctx.flags.sound
       /\ Returned("execute")
       /\ Returned("renderSummary")
       /\ Returned("renderSpacer.150")
       /\ \A i \in Calls("playSound.success") : \A j \in Rejects : i < j
  /\ (ctx.flags.sound /\ Returned("renderSpacer.150")) =>
       \/ About("playSound.success")
       \/ Played("success")
  /\ Cardinality(Calls("playSound.success")) <= 1

C7_Witness ==
  /\ Played("success")
  /\ Returned("playSound.success")
  /\ ctx.flags.sound

\* ---------------------------------------------------------------- C8
\* C8: the failure sound is played if and only if the sound option is set
\* and an error was caught, also when the options were rejected.
C8_FailureSoundIffCaught ==
  /\ Played("failure") => args.sound /\ Caught
  /\ (args.sound /\ Caught) =>
       \/ About("track.error")
       \/ About("playSound.failure")
       \/ Played("failure")
  /\ Returned("flagsSchema.parse") => (ctx.flags.sound <=> args.sound)

C8_Witness ==
  /\ ~FlagsSchemaAccepts(args)
  /\ args.sound
  /\ Played("failure")
  /\ exited = "1"

\* ---------------------------------------------------------------- C9
\* C9 as stated: a finished run with the watch flag set in which plan and
\* execute returned has entered watch.
C9_PlanExecuteDoneImpliesWatch ==
  /\ Called("watch") => ctx.flags.watch /\ Returned("plan") /\ Returned("execute")
  /\ (Finished /\ ctx.flags.watch /\ Returned("plan") /\ Returned("execute")) =>
       Called("watch")

\* C9 amended: watch is entered if and only if the watch flag is set and
\* every statement before it (plan, execute, the summary rendering, the
\* success sound if enabled) completed; never after a caught error.
C9_WatchIffAllBeforeDone ==
  /\ Called("watch") =>
       /\ ctx.flags.watch
       /\ Returned("plan")
       /\ Returned("execute")
       /\ Returned("renderSpacer.150")
       /\ ctx.flags.sound => Returned("playSound.success")
       /\ \A i \in Calls("watch") : \A j \in Rejects : i < j
  /\ (ctx.flags.watch /\ Returned("renderSpacer.150")) =>
       \/ About("playSound.success")
       \/ pending = "playSound.success"
       \/ About("watch")
       \/ Called("watch")
  /\ Cardinality(Calls("watch")) <= 1

C9_Witness ==
  /\ Called("watch")
  /\ pending = "watch"
  /\ ctx.flags.sound

\* --------------------------------------------------------------- C10
\* C10: the error event carries the authId that determineAuthId returned
\* before the failure, and "unknown" when it returned none; never null.
C10_ErrorEventAuthId ==
  \A i \in ErrorEvents :
    LET resolved == {j \in 1..(i - 1) : /\ log[j].op = "return"
                                        /\ log[j].arg = "determineAuthId"
                                        /\ log[j].id # NULL}
    IN  /\ log[i].id # NULL
        /\ log[i].id # ""
        /\ \A j \in resolved : log[i].id = log[j].id
        /\ resolved = {} => log[i].id = "unknown"

C10_Witness ==
  /\ \E i \in ErrorEvents : log[i].id \in AuthIds
  /\ Rejected("execute")

\* --------------------------------------------------------------- C11
Settled(type) == snd[type].resolves >= 1
Created(type) == snd[type].exec # "idle"

\* What holds of the promise of one playSound call at every moment.
NotifierInv(type) ==
  /\ ~Rejected("playSound." \o type)
  /\ Created(type) <=> Called("playSound." \o type)
  /\ Created(type) => snd[type].timer \in {"armed", "fired"} /\ snd[type].delay = TimeoutMs
  /\ snd[type].timer = "fired" => Settled(type)
  /\ snd[type].exec = "done" => Settled(type)
  /\ Returned("playSound." \o type) => Settled(type)

\* C11: a playSound call never rejects, is settled at the latest when its
\* 3000 ms timer fires, and the awaiting handler does resume, also when the
\* callback of exec never fires.
C11_NotifierSettlesByTimer ==
  /\ [](NotifierInv("success") /\ NotifierInv("failure"))
  /\ (pending = "playSound.success") ~> Returned("playSound.success")
  /\ (pending = "playSound.failure") ~> Returned("playSound.failure")

C11_Witness ==
  /\ Returned("playSound.failure")
  /\ snd["failure"].exec = "running"
  /\ snd["failure"].timer = "fired"

\* --------------------------------------------------------------- C12
TrackEvents == {i \in DOMAIN log : log[i].op = "trackEvent"}
GateClosed == ctx.flags.debug /\ ~confirmed

\* C12 as stated: while the debug flag is set and the confirmation has not
\* arrived, no phase is invoked, no event is sent and no exit is requested.
C12_NothingBeforeConfirmation ==
  GateClosed =>
    /\ \A p \in Phases : ~Called(p)
    /\ TrackEvents = {}
    /\ exited = NONE

\* C12 amended: while the debug flag is set and the confirmation has not
\* arrived, no phase is invoked, no start or success event is sent and exit 0
\* is not requested; unless pauseIfDebug itself rejected, no event at all is
\* sent and no exit is requested.  Phases begin only after the confirmation.
C12_GateHoldsUntilConfirmedOrFailed ==
  /\ GateClosed =>
       /\ \A p \in Phases : ~Called(p)
       /\ StartEvents = {} /\ SuccessEvents = {}
       /\ exited # GracefulStatus
       /\ Caught => Rejected("pauseIfDebug") /\ Cardinality(Rejects) = 1
  /\ (GateClosed /\ ~Rejected("pauseIfDebug")) =>
       /\ TrackEvents = {}
       /\ exited = NONE
       /\ pc = "pauseIfDebug"
  /\ (ctx.flags.debug /\ Called("setup")) => confirmed /\ Returned("pauseIfDebug")

C12_Witness ==
  /\ GateClosed
  /\ pending = "pauseIfDebug"

\* --------------------------------------------------------------- C13
\* C13 as stated: when an error was caught, the summary was not rendered
\* earlier in the run (renderSummary did not run to completion).
C13_CaughtImpliesNoSummary ==
  Caught => ~Returned("renderSummary")

BeforeSummary ==
  {"flagsSchema.parse", "pauseIfDebug", "renderIntro", "setup", "determineAuthId",
   "renderSpacer.141", "plan", "renderSpacer.144", "execute", "renderSpacer.147"}

\* C13 amended: renderSummary is invoked only after execute returned and
\* never after an error was caught; a run whose error comes from a step
\* before the summary has not invoked it; a run that failed after invoking
\* it failed in renderSummary, the renderSpacer after it, or watch.
C13_SummaryOnlyAfterExecute ==
  /\ Called("renderSummary") => Returned("execute")
  /\ \A i \in Calls("renderSummary") : \A j \in Rejects : i < j
  /\ \A op \in BeforeSummary : Rejected(op) => ~Called("renderSummary")
  /\ (Caught /\ Called("renderSummary")) =>
       \/ Rejected("renderSummary")
       \/ Rejected("renderSpacer.150")
       \/ Rejected("watch")

C13_Witness ==
  /\ exited = "1"
  /\ Rejected("execute")
  /\ ~Called("renderSummary")

\* --------------------------------------------------------------- C14
ExitRequests == {i \in DOMAIN log : log[i].op = "exit"}

\* C14: a run requests at most one exit; exitGracefully (status 0) only when
\* no error was caught, process.exit(1) only when one was.
C14_SingleExitOutcome ==
  /\ Cardinality(ExitRequests) <= 1
  /\ exited \in {NONE, GracefulStatus, "1"}
  /\ exited # NONE <=> ExitRequests # {}
  /\ \A i \in ExitRequests :
       /\ log[i].arg = "exitGracefully" =>
            /\ log[i].id = GracefulStatus /\ exited = GracefulStatus
            /\ ~Caught
       /\ log[i].arg = "process.exit" =>
            /\ log[i].id = "1" /\ exited = "1"
            /\ \E j \in Rejects : j < i
       /\ log[i].arg \in {"exitGracefully", "process.exit"}
  /\ Caught => exited # GracefulStatus /\ pc # "exitGracefully"

C14_Witness ==
  /\ exited = "1"
  /\ Rejected("watch")

\* --------------------------------------------------------------- C15
\* C15: after commander has met the first n occurrences of a repeatable
\* option, the accumulated value is exactly those n values in the order
\* given (and undefined while n = 0).
C15_AccumulatorKeepsOrder ==
  LET n == opt.next - 1
  IN  IF n = 0 THEN opt.prev = Undefined
                ELSE opt.prev = Array(SubSeq(opt.values, 1, n))

C15_Witness ==
  /\ opt.next = 4
  /\ opt.values[1] = opt.values[3]
  /\ opt.values[1] # opt.values[2]
  /\ opt.prev.defined

\* --------------------------------------------------------------- C16
PhaseOrder == << "setup", "plan", "execute", "renderSummary", "watch" >>
AllCalls == {i \in DOMAIN log : log[i].op = "call"}

\* C16: setup, plan, execute, renderSummary and watch are each invoked at
\* most once, each only after the one before it returned, and nothing is
\* invoked while one of them is still in flight.
C16_PhasesInOrderOneAtATime ==
  /\ \A k \in DOMAIN PhaseOrder : Cardinality(Calls(PhaseOrder[k])) <= 1
  /\ \A k \in DOMAIN PhaseOrder : \A i \in Calls(PhaseOrder[k]) :
       k > 1 => \E j \in 1..(i - 1) : log[j] = Ev("return", PhaseOrder[k - 1], "")
  /\ \A k \in DOMAIN PhaseOrder : \A i \in Calls(PhaseOrder[k]) : \A j \in AllCalls :
       j > i => \E m \in (i + 1)..(j - 1) :
                  /\ log[m].op \in {"return", "reject"}
                  /\ log[m].arg = PhaseOrder[k]

C16_Witness ==
  /\ Returned("watch")
  /\ exited = GracefulStatus

\* --------------------------------------------------------------- C17
\* C17: while a notification is not settled the handler stays suspended at
\* it: no watch, no success event, no exit before the success sound is
\* settled, and no process.exit before the failure sound is settled.
C17_HandlerWaitsForNotifier ==
  /\ (Played("success") /\ ~Settled("success")) =>
       /\ pending = "playSound.success"
       /\ ~Called("watch")
       /\ SuccessEvents = {}
       /\ exited = NONE
  /\ (Played("failure") /\ ~Settled("failure")) =>
       /\ pending = "playSound.failure"
       /\ exited = NONE
  /\ \A type \in SoundKinds : \A i \in Calls("playSound." \o type) :
       i < Len(log) => log[i + 1] = Ev("return", "playSound." \o type, "")
  /\ \A type \in SoundKinds : Returned("playSound." \o type) => Settled(type)

C17_Witness ==
  /\ Returned("playSound.success")
  /\ SuccessEvents # {}
  /\ snd["success"].exec = "done"

\* --------------------------------------------------------------- C18
Resumptions(type) ==
  {i \in DOMAIN log : log[i] = Ev("return", "playSound." \o type, "")}

\* C18: the handler resumes from a playSound call at most once and only
\* after a signal; a signal that arrives when the promise is already
\* settled changes nothing of the handler.
C18_ResumesOnceLoserIgnored ==
  /\ [](\A type \in SoundKinds :
          /\ Cardinality(Resumptions(type)) <= 1
          /\ Resumptions(type) # {} => Settled(type)
          /\ snd[type].resolves <= 2)
  /\ [][\A type \in SoundKinds :
          (Settled(type) /\ snd'[type] # snd[type]) =>
             UNCHANGED <<ctx, authId, pc, pending, log, exited>>]_vars

C18_Witness ==
  /\ snd["success"].resolves = 2
  /\ Cardinality(Resumptions("success")) = 1
  /\ exited = GracefulStatus

\* --------------------------------------------------------------- C19
\* C19: without the watch flag, when the debug prompt is confirmed, every
\* awaited call settles and the timer fires, an exit is requested in the
\* end, also when the player never calls back.
C19_RunEndsWithoutWatch ==
  ~args.watch => <>(exited # NONE)

C19_Witness ==
  /\ ~args.watch
  /\ exited = GracefulStatus
  /\ snd["success"].exec = "running"
  /\ snd["success"].timer = "fired"

\* --------------------------------------------------------------- C20
\* C20 as stated: no run plays both the success and the failure sound.
C20_NeverBothSounds ==
  ~(Played("success") /\ Played("failure"))

\* C20 amended: each sound is played at most once per run; both are played
\* only when watch, entered after the success sound, rejects; the failure
\* sound is never played after the success event or the graceful exit.
C20_BothSoundsOnlyAfterWatchFails ==
  /\ Cardinality(Calls("playSound.success")) <= 1
  /\ Cardinality(Calls("playSound.failure")) <= 1
  /\ (Played("success") /\ Played("failure")) =>
       /\ ctx.flags.watch
       /\ Rejected("watch")
       /\ Cardinality(Rejects) = 1
       /\ \A i \in Calls("playSound.success") : \A j \in Calls("playSound.failure") : i < j
  /\ Played("failure") => SuccessEvents = {} /\ exited # GracefulStatus

C20_Witness ==
  /\ Played("success")
  /\ Played("failure")
  /\ exited = "1"

====
